---------------------------- MODULE Spec2Model ----------------------------
(***************************************************************************)
(* Known Python distributions: the lazily constructed, process-wide        *)
(* PythonDistributionCollection of pyoxidizer/src/python_distributions.rs, *)
(* its selection query find_distribution and its enumeration helpers.      *)
(*                                                                         *)
(* Two specifications:                                                     *)
(*   Spec      the program: threads dereference the Lazy static            *)
(*             PYTHON_DISTRIBUTIONS and query the collection it holds;     *)
(*   SpecColl  the methods of PythonDistributionCollection applied by one  *)
(*             caller to bounded collections (the compiled-in one among    *)
(*             them).                                                      *)
(***************************************************************************)
EXTENDS Integers, Sequences, FiniteSets, TLC

(* Bounds of the model. *)
NumThreads == 2
MaxLen == 2

Threads == 1..NumThreads

VARIABLES
    lazy,           \* state of the Lazy cell: "Incomplete", "Running", "Complete"
    dists,          \* PythonDistributionCollection.dists held by the cell
    constructions,  \* number of times the construction closure has run
    pc,             \* per thread: "start", "init", "wait", "ready"
    got,            \* per thread: the collection its dereference returned
    last            \* the last query that returned, with its result

vars == <<lazy, dists, constructions, pc, got, last>>

-----------------------------------------------------------------------------
(* Option<T>: None is the empty sequence, Some(x) a one-element sequence. *)
None == <<>>
Some(x) == <<x>>

(* DistributionFlavor, as matched by find_distribution. *)
Flavors == {"Standalone", "StandaloneStatic", "StandaloneDynamic"}

(* A target triple no compiled-in record carries. *)
UnknownTriple == "armv7-unknown-linux-gnueabihf"

(* The UTF-8 bytes of the target triples; str orders by them. *)
Bytes ==
    "aarch64-apple-darwin" :>
      <<97, 97, 114, 99, 104, 54, 52, 45, 97, 112, 112, 108, 101, 45, 100, 97, 114, 119, 105, 110>> @@
    "i686-pc-windows-msvc" :>
      <<105, 54, 56, 54, 45, 112, 99, 45, 119, 105, 110, 100, 111, 119, 115, 45, 109, 115, 118, 99>> @@
    "x86_64-apple-darwin" :>
      <<120, 56, 54, 95, 54, 52, 45, 97, 112, 112, 108, 101, 45, 100, 97, 114, 119, 105, 110>> @@
    "x86_64-pc-windows-msvc" :>
      <<120, 56, 54, 95, 54, 52, 45, 112, 99, 45, 119, 105, 110, 100, 111, 119, 115, 45, 109, 115, 118, 99>> @@
    "x86_64-unknown-linux-gnu" :>
      <<120, 56, 54, 95, 54, 52, 45, 117, 110, 107, 110, 111, 119, 110, 45, 108, 105, 110, 117, 120, 45, 103, 110, 117>> @@
    "x86_64-unknown-linux-musl" :>
      <<120, 56, 54, 95, 54, 52, 45, 117, 110, 107, 110, 111, 119, 110, 45, 108, 105, 110, 117, 120, 45, 109, 117, 115, 108>> @@
    "armv7-unknown-linux-gnueabihf" :>
      <<97, 114, 109, 118, 55, 45, 117, 110, 107, 110, 111, 119, 110, 45, 108, 105, 110, 117, 120, 45, 103, 110, 117, 101, 97, 98, 105, 104, 102>>

(* Ord for str: lexicographic comparison of the bytes. *)
RECURSIVE LexLess(_, _)
LexLess(x, y) ==
    IF x = <<>> THEN y # <<>>
    ELSE IF y = <<>> THEN FALSE
    ELSE IF Head(x) < Head(y) THEN TRUE
    ELSE IF Head(x) > Head(y) THEN FALSE
    ELSE LexLess(Tail(x), Tail(y))

StrLess(a, b) == LexLess(Bytes[a], Bytes[b])

-----------------------------------------------------------------------------
(* The vector built by the construction closure, in the order authored,   *)
(* but with the Windows static records declared before the shared ones.   *)
PYTHON_DISTRIBUTIONS_static_first ==
<<
    [ python_major_minor_version |-> "3.8",
      location |-> [ url |-> "https://github.com/indygreg/python-build-standalone/releases/download/20211012/cpython-3.8.12-x86_64-unknown-linux-gnu-pgo-20211011T1926.tar.zst",
                     sha256 |-> "2eacfec519467efd5b553758ab33160362865cacc709f3ec9e5ae5a89f40aa8d" ],
      target_triple |-> "x86_64-unknown-linux-gnu",
      supports_prebuilt_extension_modules |-> TRUE ],
    [ python_major_minor_version |-> "3.9",
      location |-> [ url |-> "https://github.com/indygreg/python-build-standalone/releases/download/20211012/cpython-3.9.7-x86_64-unknown-linux-gnu-pgo-20211011T1926.tar.zst",
                     sha256 |-> "3c59653724686e634e36a4441b04e9652349ec8ed3316275619bf28e426aec2c" ],
      target_triple |-> "x86_64-unknown-linux-gnu",
      supports_prebuilt_extension_modules |-> TRUE ],
    [ python_major_minor_version |-> "3.8",
      location |-> [ url |-> "https://github.com/indygreg/python-build-standalone/releases/download/20211012/cpython-3.8.12-x86_64-unknown-linux-musl-noopt-20211011T1926.tar.zst",
                     sha256 |-> "37d4f2250965d584517f9b534aa37cab8a99864c70f8399353c9c02f958ff43b" ],
      target_triple |-> "x86_64-unknown-linux-musl",
      supports_prebuilt_extension_modules |-> FALSE ],
    [ python_major_minor_version |-> "3.9",
      location |-> [ url |-> "https://github.com/indygreg/python-build-standalone/releases/download/20211012/cpython-3.9.7-x86_64-unknown-linux-musl-noopt-20211011T1926.tar.zst",
                     sha256 |-> "f188e8cc0fa68fcda22e4f5423ce51a53cd8791419023651553ec947dfb0185e" ],
      target_triple |-> "x86_64-unknown-linux-musl",
      supports_prebuilt_extension_modules |-> FALSE ],
    [ python_major_minor_version |-> "3.8",
      location |-> [ url |-> "https://github.com/indygreg/python-build-standalone/releases/download/20211012/cpython-3.8.12-i686-pc-windows-msvc-static-noopt-20211011T1926.tar.zst",
                     sha256 |-> "ead7eec3d3a5d3a58a76d6382d8f397fbef971665858f289af52756bb190dc59" ],
      target_triple |-> "i686-pc-windows-msvc",
      supports_prebuilt_extension_modules |-> FALSE ],
    [ python_major_minor_version |-> "3.9",
      location |-> [ url |-> "https://github.com/indygreg/python-build-standalone/releases/download/20211012/cpython-3.9.7-i686-pc-windows-msvc-static-noopt-20211011T1926.tar.zst",
                     sha256 |-> "e7d2e97aa5e52817266a2bace944fe95ca03f396bd7317f205dc9f27ac6713b4" ],
      target_triple |-> "i686-pc-windows-msvc",
      supports_prebuilt_extension_modules |-> FALSE ],
    [ python_major_minor_version |-> "3.8",
      location |-> [ url |-> "https://github.com/indygreg/python-build-standalone/releases/download/20211012/cpython-3.8.12-x86_64-pc-windows-msvc-static-noopt-20211011T1926.tar.zst",
                     sha256 |-> "822420c7ae4ed9aec268f77588a69378d0fb8f8227a3ce6c8139f1398e5d064a" ],
      target_triple |-> "x86_64-pc-windows-msvc",
      supports_prebuilt_extension_modules |-> FALSE ],
    [ python_major_minor_version |-> "3.9",
      location |-> [ url |-> "https://github.com/indygreg/python-build-standalone/releases/download/20211012/cpython-3.9.7-x86_64-pc-windows-msvc-static-noopt-20211011T1926.tar.zst",
                     sha256 |-> "196b210061d4ea6ca138fc1d66ed76c0879156e29112eeb3d2cc106c27805a89" ],
      target_triple |-> "x86_64-pc-windows-msvc",
      supports_prebuilt_extension_modules |-> FALSE ],
    [ python_major_minor_version |-> "3.8",
      location |-> [ url |-> "https://github.com/indygreg/python-build-standalone/releases/download/20211012/cpython-3.8.12-i686-pc-windows-msvc-shared-pgo-20211011T1926.tar.zst",
                     sha256 |-> "45540517e36df0033057f3c0a4cef1947448ae42783bfa85fc2b4f0071c3b24f" ],
      target_triple |-> "i686-pc-windows-msvc",
      supports_prebuilt_extension_modules |-> TRUE ],
    [ python_major_minor_version |-> "3.9",
      location |-> [ url |-> "https://github.com/indygreg/python-build-standalone/releases/download/20211012/cpython-3.9.7-i686-pc-windows-msvc-shared-pgo-20211011T1926.tar.zst",
                     sha256 |-> "5d512a83cdfab847b45cc02b603b7d267d720c35416b57b574bb85f2edf43d77" ],
      target_triple |-> "i686-pc-windows-msvc",
      supports_prebuilt_extension_modules |-> TRUE ],
    [ python_major_minor_version |-> "3.8",
      location |-> [ url |-> "https://github.com/indygreg/python-build-standalone/releases/download/20211012/cpython-3.8.12-x86_64-pc-windows-msvc-shared-pgo-20211011T1926.tar.zst",
                     sha256 |-> "f33ce6a53c389e53d37fd21f0e923e255cf1d7e957cbd65229c09d14bdd2e443" ],
      target_triple |-> "x86_64-pc-windows-msvc",
      supports_prebuilt_extension_modules |-> TRUE ],
    [ python_major_minor_version |-> "3.9",
      location |-> [ url |-> "https://github.com/indygreg/python-build-standalone/releases/download/20211012/cpython-3.9.7-x86_64-pc-windows-msvc-shared-pgo-20211011T1926.tar.zst",
                     sha256 |-> "19ca3321853ee1882dd40e13a2cfc183414c6b0b8f8c453ef41c454688c9d682" ],
      target_triple |-> "x86_64-pc-windows-msvc",
      supports_prebuilt_extension_modules |-> TRUE ],
    [ python_major_minor_version |-> "3.9",
      location |-> [ url |-> "https://github.com/indygreg/python-build-standalone/releases/download/20211012/cpython-3.9.7-aarch64-apple-darwin-pgo-20211011T1926.tar.zst",
                     sha256 |-> "dbf69f4fc42501a4d2a23c0c87a5f136b2a5beb37e0b544e214d4af8c0ec90fa" ],
      target_triple |-> "aarch64-apple-darwin",
      supports_prebuilt_extension_modules |-> TRUE ],
    [ python_major_minor_version |-> "3.8",
      location |-> [ url |-> "https://github.com/indygreg/python-build-standalone/releases/download/20211012/cpython-3.8.12-x86_64-apple-darwin-pgo-20211011T1926.tar.zst",
                     sha256 |-> "1157308dbd6227d6b9463f556261e413c7bd3827471829fa4365e254b25520a9" ],
      target_triple |-> "x86_64-apple-darwin",
      supports_prebuilt_extension_modules |-> TRUE ],
    [ python_major_minor_version |-> "3.9",
      location |-> [ url |-> "https://github.com/indygreg/python-build-standalone/releases/download/20211012/cpython-3.9.7-x86_64-apple-darwin-pgo-20211011T1926.tar.zst",
                     sha256 |-> "1cabf3c7adf492bc194bc6fa3040943bf0ae2aa274ee7fa95b2908615c01b830" ],
      target_triple |-> "x86_64-apple-darwin",
      supports_prebuilt_extension_modules |-> TRUE ]
>>

(* The vector built by the construction closure, in the order authored. *)
PYTHON_DISTRIBUTIONS ==
<<
    [ python_major_minor_version |-> "3.8",
      location |-> [ url |-> "https://github.com/indygreg/python-build-standalone/releases/download/20211012/cpython-3.8.12-x86_64-unknown-linux-gnu-pgo-20211011T1926.tar.zst",
                     sha256 |-> "2eacfec519467efd5b553758ab33160362865cacc709f3ec9e5ae5a89f40aa8d" ],
      target_triple |-> "x86_64-unknown-linux-gnu",
      supports_prebuilt_extension_modules |-> TRUE ],
    [ python_major_minor_version |-> "3.9",
      location |-> [ url |-> "https://github.com/indygreg/python-build-standalone/releases/download/20211012/cpython-3.9.7-x86_64-unknown-linux-gnu-pgo-20211011T1926.tar.zst",
                     sha256 |-> "3c59653724686e634e36a4441b04e9652349ec8ed3316275619bf28e426aec2c" ],
      target_triple |-> "x86_64-unknown-linux-gnu",
      supports_prebuilt_extension_modules |-> TRUE ],
    [ python_major_minor_version |-> "3.8",
      location |-> [ url |-> "https://github.com/indygreg/python-build-standalone/releases/download/20211012/cpython-3.8.12-x86_64-unknown-linux-musl-noopt-20211011T1926.tar.zst",
                     sha256 |-> "37d4f2250965d584517f9b534aa37cab8a99864c70f8399353c9c02f958ff43b" ],
      target_triple |-> "x86_64-unknown-linux-musl",
      supports_prebuilt_extension_modules |-> FALSE ],
    [ python_major_minor_version |-> "3.9",
      location |-> [ url |-> "https://github.com/indygreg/python-build-standalone/releases/download/20211012/cpython-3.9.7-x86_64-unknown-linux-musl-noopt-20211011T1926.tar.zst",
                     sha256 |-> "f188e8cc0fa68fcda22e4f5423ce51a53cd8791419023651553ec947dfb0185e" ],
      target_triple |-> "x86_64-unknown-linux-musl",
      supports_prebuilt_extension_modules |-> FALSE ],
    [ python_major_minor_version |-> "3.8",
      location |-> [ url |-> "https://github.com/indygreg/python-build-standalone/releases/download/20211012/cpython-3.8.12-i686-pc-windows-msvc-shared-pgo-20211011T1926.tar.zst",
                     sha256 |-> "45540517e36df0033057f3c0a4cef1947448ae42783bfa85fc2b4f0071c3b24f" ],
      target_triple |-> "i686-pc-windows-msvc",
      supports_prebuilt_extension_modules |-> TRUE ],
    [ python_major_minor_version |-> "3.9",
      location |-> [ url |-> "https://github.com/indygreg/python-build-standalone/releases/download/20211012/cpython-3.9.7-i686-pc-windows-msvc-shared-pgo-20211011T1926.tar.zst",
                     sha256 |-> "5d512a83cdfab847b45cc02b603b7d267d720c35416b57b574bb85f2edf43d77" ],
      target_triple |-> "i686-pc-windows-msvc",
      supports_prebuilt_extension_modules |-> TRUE ],
    [ python_major_minor_version |-> "3.8",
      location |-> [ url |-> "https://github.com/indygreg/python-build-standalone/releases/download/20211012/cpython-3.8.12-x86_64-pc-windows-msvc-shared-pgo-20211011T1926.tar.zst",
                     sha256 |-> "f33ce6a53c389e53d37fd21f0e923e255cf1d7e957cbd65229c09d14bdd2e443" ],
      target_triple |-> "x86_64-pc-windows-msvc",
      supports_prebuilt_extension_modules |-> TRUE ],
    [ python_major_minor_version |-> "3.9",
      location |-> [ url |-> "https://github.com/indygreg/python-build-standalone/releases/download/20211012/cpython-3.9.7-x86_64-pc-windows-msvc-shared-pgo-20211011T1926.tar.zst",
                     sha256 |-> "19ca3321853ee1882dd40e13a2cfc183414c6b0b8f8c453ef41c454688c9d682" ],
      target_triple |-> "x86_64-pc-windows-msvc",
      supports_prebuilt_extension_modules |-> TRUE ],
    [ python_major_minor_version |-> "3.8",
      location |-> [ url |-> "https://github.com/indygreg/python-build-standalone/releases/download/20211012/cpython-3.8.12-i686-pc-windows-msvc-static-noopt-20211011T1926.tar.zst",
                     sha256 |-> "ead7eec3d3a5d3a58a76d6382d8f397fbef971665858f289af52756bb190dc59" ],
      target_triple |-> "i686-pc-windows-msvc",
      supports_prebuilt_extension_modules |-> FALSE ],
    [ python_major_minor_version |-> "3.9",
      location |-> [ url |-> "https://github.com/indygreg/python-build-standalone/releases/download/20211012/cpython-3.9.7-i686-pc-windows-msvc-static-noopt-20211011T1926.tar.zst",
                     sha256 |-> "e7d2e97aa5e52817266a2bace944fe95ca03f396bd7317f205dc9f27ac6713b4" ],
      target_triple |-> "i686-pc-windows-msvc",
      supports_prebuilt_extension_modules |-> FALSE ],
    [ python_major_minor_version |-> "3.8",
      location |-> [ url |-> "https://github.com/indygreg/python-build-standalone/releases/download/20211012/cpython-3.8.12-x86_64-pc-windows-msvc-static-noopt-20211011T1926.tar.zst",
                     sha256 |-> "822420c7ae4ed9aec268f77588a69378d0fb8f8227a3ce6c8139f1398e5d064a" ],
      target_triple |-> "x86_64-pc-windows-msvc",
      supports_prebuilt_extension_modules |-> FALSE ],
    [ python_major_minor_version |-> "3.9",
      location |-> [ url |-> "https://github.com/indygreg/python-build-standalone/releases/download/20211012/cpython-3.9.7-x86_64-pc-windows-msvc-static-noopt-20211011T1926.tar.zst",
                     sha256 |-> "196b210061d4ea6ca138fc1d66ed76c0879156e29112eeb3d2cc106c27805a89" ],
      target_triple |-> "x86_64-pc-windows-msvc",
      supports_prebuilt_extension_modules |-> FALSE ],
    [ python_major_minor_version |-> "3.9",
      location |-> [ url |-> "https://github.com/indygreg/python-build-standalone/releases/download/20211012/cpython-3.9.7-aarch64-apple-darwin-pgo-20211011T1926.tar.zst",
                     sha256 |-> "dbf69f4fc42501a4d2a23c0c87a5f136b2a5beb37e0b544e214d4af8c0ec90fa" ],
      target_triple |-> "aarch64-apple-darwin",
      supports_prebuilt_extension_modules |-> TRUE ],
    [ python_major_minor_version |-> "3.8",
      location |-> [ url |-> "https://github.com/indygreg/python-build-standalone/releases/download/20211012/cpython-3.8.12-x86_64-apple-darwin-pgo-20211011T1926.tar.zst",
                     sha256 |-> "1157308dbd6227d6b9463f556261e413c7bd3827471829fa4365e254b25520a9" ],
      target_triple |-> "x86_64-apple-darwin",
      supports_prebuilt_extension_modules |-> TRUE ],
    [ python_major_minor_version |-> "3.9",
      location |-> [ url |-> "https://github.com/indygreg/python-build-standalone/releases/download/20211012/cpython-3.9.7-x86_64-apple-darwin-pgo-20211011T1926.tar.zst",
                     sha256 |-> "1cabf3c7adf492bc194bc6fa3040943bf0ae2aa274ee7fa95b2908615c01b830" ],
      target_triple |-> "x86_64-apple-darwin",
      supports_prebuilt_extension_modules |-> TRUE ]
>>

-----------------------------------------------------------------------------
(* Bounded collections for SpecColl: every sequence of at most MaxLen     *)
(* records over a small record set, and the compiled-in vector.           *)
CollTriples == {"x86_64-unknown-linux-gnu", "x86_64-unknown-linux-musl"}
CollVersions == {"3.8", "3.9"}
CollLocation == [url |-> "a", sha256 |-> "a"]
OtherLocation == [url |-> "b", sha256 |-> "b"]
CollRecords ==
    [ python_major_minor_version : CollVersions,
      location : {CollLocation},
      target_triple : CollTriples,
      supports_prebuilt_extension_modules : BOOLEAN ]
    \cup
    (* second builds of the "3.9" records, told apart by their location *)
    [ python_major_minor_version : {"3.9"},
      location : {OtherLocation},
      target_triple : CollTriples,
      supports_prebuilt_extension_modules : BOOLEAN ]
SeqsUpTo(S, n) == UNION { [1..k -> S] : k \in 0..n }
Collections == {PYTHON_DISTRIBUTIONS} \cup SeqsUpTo(CollRecords, MaxLen)

(* Inputs of the queries. *)
QueryTriples == DOMAIN Bytes
QueryVersions == {None, Some("3.8"), Some("3.9")}

-----------------------------------------------------------------------------
(* find_distribution *)

DefaultVersion_38 == "3.8"

DefaultVersion == "3.9"

unwrap_or(opt, default) == IF opt = None THEN default ELSE opt[1]

version_filter(ds, version) ==
    SelectSeq(ds, LAMBDA dist : dist.python_major_minor_version = version)

triple_filter_none(ds, triple) == ds

triple_filter(ds, triple) ==
    SelectSeq(ds, LAMBDA dist : dist.target_triple = triple)

flavor_matches_swapped(flavor, dist) ==
    CASE flavor = "Standalone" -> TRUE
      [] flavor = "StandaloneStatic" -> dist.supports_prebuilt_extension_modules
      [] flavor = "StandaloneDynamic" -> ~dist.supports_prebuilt_extension_modules

flavor_matches(flavor, dist) ==
    CASE flavor = "Standalone" -> TRUE
      [] flavor = "StandaloneStatic" -> ~dist.supports_prebuilt_extension_modules
      [] flavor = "StandaloneDynamic" -> dist.supports_prebuilt_extension_modules

flavor_filter(ds, flavor) ==
    SelectSeq(ds, LAMBDA dist : flavor_matches(flavor, dist))

(* Iterator::last, where the code calls Iterator::next. *)
last_of(s) == IF s = <<>> THEN None ELSE Some(s[Len(s)])

(* Iterator::next on a fresh iterator: its first item, if any. *)
next(s) == IF s = <<>> THEN None ELSE Some(Head(s))

find_distribution_last(self, target_triple, flavor, python_major_minor_version) ==
    LET version == unwrap_or(python_major_minor_version, DefaultVersion)
    IN  last_of(flavor_filter(triple_filter(version_filter(self, version),
                                            target_triple),
                              flavor))

find_distribution(self, target_triple, flavor, python_major_minor_version) ==
    LET version == unwrap_or(python_major_minor_version, DefaultVersion)
    IN  next(flavor_filter(triple_filter(version_filter(self, version),
                                         target_triple),
                           flavor))

-----------------------------------------------------------------------------
(* iter and all_target_triples *)

iter(self) == self

map_target_triple(ds) == [i \in 1..Len(ds) |-> ds[i].target_triple]

RECURSIVE insert(_, _)
insert(x, s) ==
    IF s = <<>> THEN <<x>>
    ELSE IF StrLess(x, Head(s)) THEN <<x>> \o s
    ELSE <<Head(s)>> \o insert(x, Tail(s))

sorted_unsorted(s) == s

(* Itertools::sorted: the items collected and sorted ascending. *)
RECURSIVE sorted(_)
sorted(s) == IF s = <<>> THEN <<>> ELSE insert(Head(s), sorted(Tail(s)))

(* Itertools::dedup: consecutive equal items collapse to one. *)
RECURSIVE dedup(_)
dedup(s) ==
    IF Len(s) < 2 THEN s
    ELSE IF s[1] = s[2] THEN dedup(Tail(s))
    ELSE <<s[1]>> \o dedup(Tail(s))

all_target_triples(self) == dedup(sorted(map_target_triple(self)))

(* Vec::dedup_by_key on the records themselves, keyed by target triple. *)
RECURSIVE dedup_by_triple(_)
dedup_by_triple(ds) ==
    IF Len(ds) < 2 THEN ds
    ELSE IF ds[1].target_triple = ds[2].target_triple
         THEN dedup_by_triple(<<ds[1]>> \o Tail(Tail(ds)))
    ELSE <<ds[1]>> \o dedup_by_triple(Tail(ds))

-----------------------------------------------------------------------------
(* The state machine *)

NoCall ==
    [ thread |-> 0, op |-> "none", target_triple |-> "", flavor |-> "",
      python_major_minor_version |-> None, result |-> <<>> ]

(* Before any thread touches PYTHON_DISTRIBUTIONS: the cell is empty. *)
Init ==
    /\ lazy = "Incomplete"
    /\ dists = <<>>
    /\ constructions = 0
    /\ pc = [t \in Threads |-> "start"]
    /\ got = [t \in Threads |-> <<>>]
    /\ last = NoCall

(* A constructed collection held by one caller, thread 1. *)
InitColl ==
    /\ lazy = "Complete"
    /\ dists \in Collections
    /\ constructions = 1
    /\ pc = [t \in Threads |-> IF t = 1 THEN "ready" ELSE "start"]
    /\ got = [t \in Threads |-> IF t = 1 THEN dists ELSE <<>>]
    /\ last = NoCall

(* First access without the compare-and-swap on the cell state: a thread  *)
(* that finds the construction running starts one of its own.             *)
Deref_no_cas(t) ==
    /\ pc[t] = "start"
    /\ IF lazy = "Complete"
       THEN /\ pc' = [pc EXCEPT ![t] = "ready"]
            /\ got' = [got EXCEPT ![t] = dists]
            /\ lazy' = lazy
       ELSE /\ lazy' = "Running"
            /\ pc' = [pc EXCEPT ![t] = "init"]
            /\ got' = got
    /\ UNCHANGED <<dists, constructions, last>>

(* First access that does not wait for a running construction. *)
Deref_no_wait(t) ==
    /\ pc[t] = "start"
    /\ IF lazy = "Incomplete"
       THEN /\ lazy' = "Running"
            /\ pc' = [pc EXCEPT ![t] = "init"]
            /\ got' = got
       ELSE /\ pc' = [pc EXCEPT ![t] = "ready"]
            /\ got' = [got EXCEPT ![t] = dists]
            /\ lazy' = lazy
    /\ UNCHANGED <<dists, constructions, last>>

(* Dereferencing the Lazy static (once_cell::sync::Lazy, forced on first  *)
(* access): return the value if complete, become the initialiser if       *)
(* nobody is, wait if a construction is running.                          *)
Deref(t) ==
    /\ pc[t] = "start"
    /\ CASE lazy = "Complete" ->
              /\ pc' = [pc EXCEPT ![t] = "ready"]
              /\ got' = [got EXCEPT ![t] = dists]
              /\ lazy' = lazy
         [] lazy = "Incomplete" ->
              /\ lazy' = "Running"
              /\ pc' = [pc EXCEPT ![t] = "init"]
              /\ got' = got
         [] lazy = "Running" ->
              /\ pc' = [pc EXCEPT ![t] = "wait"]
              /\ got' = got
              /\ lazy' = lazy
    /\ UNCHANGED <<dists, constructions, last>>

(* The construction closure: build the vector, wrap it, publish it. *)
Construct(t) ==
    /\ pc[t] = "init"
    /\ dists' = PYTHON_DISTRIBUTIONS
    /\ constructions' = constructions + 1
    /\ lazy' = "Complete"
    /\ pc' = [pc EXCEPT ![t] = "ready"]
    /\ got' = [got EXCEPT ![t] = dists']
    /\ last' = last

(* A waiting thread resumes once the construction has completed. *)
Wake(t) ==
    /\ pc[t] = "wait"
    /\ lazy = "Complete"
    /\ pc' = [pc EXCEPT ![t] = "ready"]
    /\ got' = [got EXCEPT ![t] = dists]
    /\ UNCHANGED <<lazy, dists, constructions, last>>

FindDistribution(t) ==
    /\ pc[t] = "ready"
    /\ \E target_triple \in QueryTriples, flavor \in Flavors,
          python_major_minor_version \in QueryVersions :
          last' = [ thread |-> t, op |-> "find_distribution",
                    target_triple |-> target_triple, flavor |-> flavor,
                    python_major_minor_version |-> python_major_minor_version,
                    result |-> find_distribution(dists, target_triple, flavor,
                                                 python_major_minor_version) ]
    /\ UNCHANGED <<lazy, dists, constructions, pc, got>>

Iter(t) ==
    /\ pc[t] = "ready"
    /\ last' = [NoCall EXCEPT !.thread = t, !.op = "iter", !.result = iter(dists)]
    /\ UNCHANGED <<lazy, dists, constructions, pc, got>>

(* all_target_triples that deduplicates self.dists in place. *)
AllTargetTriples_in_place(t) ==
    /\ pc[t] = "ready"
    /\ dists' = dedup_by_triple(dists)
    /\ last' = [NoCall EXCEPT !.thread = t, !.op = "all_target_triples",
                              !.result = all_target_triples(dists')]
    /\ UNCHANGED <<lazy, constructions, pc, got>>

AllTargetTriples(t) ==
    /\ pc[t] = "ready"
    /\ last' = [NoCall EXCEPT !.thread = t, !.op = "all_target_triples",
                              !.result = all_target_triples(dists)]
    /\ UNCHANGED <<lazy, dists, constructions, pc, got>>

Next ==
    \E t \in Threads :
        \/ Deref(t)
        \/ Construct(t)
        \/ Wake(t)
        \/ FindDistribution(t)
        \/ Iter(t)
        \/ AllTargetTriples(t)

NextColl ==
    \E t \in Threads :
        \/ FindDistribution(t)
        \/ Iter(t)
        \/ AllTargetTriples(t)

Spec == Init /\ [][Next]_vars

SpecColl == InitColl /\ [][NextColl]_vars

-----------------------------------------------------------------------------
(* Vocabulary of the properties *)

IsFind == last.op = "find_distribution"

(* The version a query resolves to: the one given, "3.9" when none is. *)
Resolved(v) == IF v = None THEN "3.9" ELSE v[1]

(* The flavor predicate as the design states it. *)
Accepts(flavor, dist) ==
    /\ flavor = "StandaloneStatic" => dist.supports_prebuilt_extension_modules = FALSE
    /\ flavor = "StandaloneDynamic" => dist.supports_prebuilt_extension_modules = TRUE

(* The registry indices of the records satisfying all three conditions. *)
Matches(ds, triple, flavor, v) ==
    { i \in 1..Len(ds) :
        /\ ds[i].python_major_minor_version = Resolved(v)
        /\ ds[i].target_triple = triple
        /\ Accepts(flavor, ds[i]) }

LastMatches == Matches(dists, last.target_triple, last.flavor,
                       last.python_major_minor_version)

Min(S) == CHOOSE i \in S : \A j \in S : i <= j
Range(s) == { s[i] : i \in 1..Len(s) }
TriplesOf(ds) == { ds[i].target_triple : i \in 1..Len(ds) }

(* C1: find_distribution returns the record at the smallest registry index *)
(* whose version, platform and flavor predicate all match, and returns no  *)
(* result exactly when no record matches all three.                        *)
C1_FirstMatch ==
    IsFind =>
        IF LastMatches = {}
        THEN last.result = None
        ELSE last.result = Some(dists[Min(LastMatches)])

(* Several records match and differ; the first of them was returned. *)
C1_Witness ==
    /\ IsFind
    /\ Cardinality(LastMatches) >= 2
    /\ \E i \in LastMatches : dists[i] # dists[Min(LastMatches)]
    /\ last.result = Some(dists[Min(LastMatches)])

(* C2: a query with no runtime version returns what the same query with    *)
(* the explicit version "3.9" returns, for every platform and flavor.      *)
C2_DefaultVersion ==
    (IsFind /\ last.python_major_minor_version = None) =>
        last.result = find_distribution(dists, last.target_triple, last.flavor,
                                        Some("3.9"))

(* A defaulted query found a record that a "3.8" query would not return. *)
C2_Witness ==
    /\ IsFind
    /\ last.python_major_minor_version = None
    /\ last.result # None
    /\ find_distribution(dists, last.target_triple, last.flavor, Some("3.8"))
          \notin {None, last.result}

HasBoth(ds, triple, version) ==
    /\ \E i \in 1..Len(ds) :
          /\ ds[i].target_triple = triple
          /\ ds[i].python_major_minor_version = version
          /\ ds[i].supports_prebuilt_extension_modules
    /\ \E i \in 1..Len(ds) :
          /\ ds[i].target_triple = triple
          /\ ds[i].python_major_minor_version = version
          /\ ~ds[i].supports_prebuilt_extension_modules

WindowsSharedUrl ==
    "https://github.com/indygreg/python-build-standalone/releases/download/20211012/cpython-3.9.7-x86_64-pc-windows-msvc-shared-pgo-20211011T1926.tar.zst"

(* C3: in the compiled-in registry, a Standalone query for a platform and  *)
(* version that has both a dynamic-capable and a static-only record        *)
(* returns the dynamic-capable one; for x86_64-pc-windows-msvc and the     *)
(* default version it is the shared build.                                 *)
C3_SharedPreferred ==
    (IsFind /\ last.flavor = "Standalone") =>
        /\ HasBoth(dists, last.target_triple,
                   Resolved(last.python_major_minor_version)) =>
              /\ last.result # None
              /\ last.result[1].supports_prebuilt_extension_modules = TRUE
        /\ (/\ last.target_triple = "x86_64-pc-windows-msvc"
            /\ last.python_major_minor_version = None) =>
              /\ last.result # None
              /\ last.result[1].location.url = WindowsSharedUrl

(* The Standalone, default-version query for x86_64-pc-windows-msvc ran on *)
(* the registry, which holds both builds for it.                           *)
C3_Witness ==
    /\ IsFind
    /\ last.flavor = "Standalone"
    /\ last.target_triple = "x86_64-pc-windows-msvc"
    /\ last.python_major_minor_version = None
    /\ HasBoth(dists, "x86_64-pc-windows-msvc", "3.9")
    /\ last.result # None

(* C4: a StandaloneStatic query never returns a record that supports       *)
(* prebuilt extension modules, a StandaloneDynamic query never one that    *)
(* does not, and every returned record has the requested platform and the  *)
(* resolved version.                                                       *)
C4_FlavorExact ==
    (IsFind /\ last.result # None) =>
        LET dist == last.result[1] IN
        /\ last.flavor = "StandaloneStatic" =>
              dist.supports_prebuilt_extension_modules = FALSE
        /\ last.flavor = "StandaloneDynamic" =>
              dist.supports_prebuilt_extension_modules = TRUE
        /\ dist.target_triple = last.target_triple
        /\ dist.python_major_minor_version =
              Resolved(last.python_major_minor_version)

(* A StandaloneStatic query returned a record although a dynamic-capable   *)
(* record for the same platform and version is declared before it.         *)
C4_Witness ==
    /\ IsFind
    /\ last.flavor = "StandaloneStatic"
    /\ last.result # None
    /\ \E i \in Matches(dists, last.target_triple, "Standalone",
                        last.python_major_minor_version) :
          /\ dists[i].supports_prebuilt_extension_modules
          /\ i < Min(LastMatches)

(* C5: a query for a platform that no record carries returns no result,    *)
(* for every flavor and every version, the defaulted one included.         *)
C5_UnknownPlatform ==
    (IsFind /\ last.target_triple \notin TriplesOf(dists)) =>
        last.result = None

(* The platform is unknown while some record satisfies the version and the *)
(* flavor of the query.                                                    *)
C5_Witness ==
    /\ IsFind
    /\ last.target_triple = UnknownTriple
    /\ last.result = None
    /\ \E i \in 1..Len(dists) :
          /\ dists[i].python_major_minor_version =
                Resolved(last.python_major_minor_version)
          /\ Accepts(last.flavor, dists[i])

ReferenceTriples ==
    << "aarch64-apple-darwin",
       "i686-pc-windows-msvc",
       "x86_64-apple-darwin",
       "x86_64-pc-windows-msvc",
       "x86_64-unknown-linux-gnu",
       "x86_64-unknown-linux-musl" >>

(* C6: all_target_triples returns exactly the target triples occurring in  *)
(* the registry, each once, in strictly ascending lexicographic order; for *)
(* the compiled-in registry that is the list of six the test expects.      *)
C6_SortedDistinctTriples ==
    last.op = "all_target_triples" =>
        /\ Range(last.result) = TriplesOf(dists)
        /\ \A i, j \in 1..Len(last.result) :
              i < j => StrLess(last.result[i], last.result[j])
        /\ dists = PYTHON_DISTRIBUTIONS => last.result = ReferenceTriples

(* The triples were listed for a registry that repeats a triple and does   *)
(* not declare its triples in ascending order.                             *)
C6_Witness ==
    /\ last.op = "all_target_triples"
    /\ Len(last.result) >= 2
    /\ Len(last.result) < Len(dists)
    /\ \E i \in 1..(Len(dists) - 1) :
          StrLess(dists[i + 1].target_triple, dists[i].target_triple)

(* C7: however the first accesses interleave, the construction closure     *)
(* runs at most once (exactly once when a thread has the collection),      *)
(* every thread receives the same collection, and a query that returned    *)
(* gives that result on the collection of every thread.                    *)
C7_InitOnce ==
    /\ constructions <= 1
    /\ \A t \in Threads : pc[t] = "ready" => constructions = 1
    /\ \A t1, t2 \in Threads :
          (pc[t1] = "ready" /\ pc[t2] = "ready") => got[t1] = got[t2]
    /\ IsFind =>
          \A t \in Threads : pc[t] = "ready" =>
              last.result = find_distribution(got[t], last.target_triple,
                                              last.flavor,
                                              last.python_major_minor_version)

(* Every thread has the collection after one construction, and one of     *)
(* them has queried it.                                                    *)
C7_Witness ==
    /\ constructions = 1
    /\ \A t \in Threads : pc[t] = "ready"
    /\ IsFind
    /\ last.result # None

(* C8: no query reads the registry before its construction has completed:  *)
(* whenever a thread is in a position to query, and whenever a query has   *)
(* returned, the cell is complete and holds the whole compiled-in vector.  *)
C8_ConstructedBeforeQuery ==
    /\ \A t \in Threads : pc[t] = "ready" =>
          /\ lazy = "Complete"
          /\ dists = PYTHON_DISTRIBUTIONS
          /\ got[t] = PYTHON_DISTRIBUTIONS
    /\ last.op # "none" =>
          /\ lazy = "Complete"
          /\ dists = PYTHON_DISTRIBUTIONS
    /\ last.op = "iter" => last.result = PYTHON_DISTRIBUTIONS

(* A thread has enumerated the registry while another one holds it too.    *)
C8_Witness ==
    /\ last.op = "iter"
    /\ Len(last.result) = 15
    /\ \E t \in Threads : t # last.thread /\ pc[t] = "ready"

(* C9: once the registry is constructed, no step changes its sequence of   *)
(* records or the collection a thread holds, and every find_distribution   *)
(* result is the one its arguments have on the vector as constructed, so   *)
(* a repeated query returns the same result.                               *)
C9_Step ==
    /\ lazy = "Complete" =>
          /\ lazy' = "Complete"
          /\ dists' = dists
          /\ \A t \in Threads : pc[t] = "ready" => got'[t] = got[t]
    /\ last'.op = "find_distribution" =>
          last'.result = find_distribution(PYTHON_DISTRIBUTIONS,
                                           last'.target_triple, last'.flavor,
                                           last'.python_major_minor_version)
    /\ (/\ IsFind
        /\ last'.op = "find_distribution"
        /\ last'.target_triple = last.target_triple
        /\ last'.flavor = last.flavor
        /\ last'.python_major_minor_version = last.python_major_minor_version)
          => last'.result = last.result

C9_RegistryUnchanged == [][C9_Step]_vars

(* A query has returned after the triples were listed and the registry is  *)
(* the vector as constructed.                                              *)
C9_Witness ==
    /\ lazy = "Complete"
    /\ last.op = "all_target_triples"
    /\ dists = PYTHON_DISTRIBUTIONS
    /\ \A t \in Threads : pc[t] = "ready"

(* C10: every platform all_target_triples lists for the compiled-in        *)
(* registry has a record for flavor Standalone and the default version;    *)
(* for version "3.8" some listed platform has none.                        *)
C10_DefaultVersionEverywhere ==
    /\ (/\ IsFind
        /\ last.flavor = "Standalone"
        /\ last.python_major_minor_version = None
        /\ last.target_triple \in Range(all_target_triples(dists)))
          => last.result # None
    /\ lazy = "Complete" =>
          \E p \in Range(all_target_triples(dists)) :
              find_distribution(dists, p, "Standalone", Some("3.8")) = None

(* The default-version query found a record for a listed platform that has *)
(* no "3.8" record.                                                        *)
C10_Witness ==
    /\ IsFind
    /\ last.flavor = "Standalone"
    /\ last.python_major_minor_version = None
    /\ last.target_triple \in Range(all_target_triples(dists))
    /\ last.result # None
    /\ find_distribution(dists, last.target_triple, "Standalone", Some("3.8")) = None

=============================================================================
